---- MODULE Spec2Model ----
(***************************************************************************)
(* A model of binalyze/httpreq: the request builder Req (request.go) with  *)
(* its chained configuration calls and verb methods, and the Response view *)
(* (response.go: Body, SaveFile, DownloadFile, Close).                     *)
(*                                                                         *)
(* Strings that the code inspects (addresses, proxy URLs, paths) are       *)
(* sequences of one-character strings or of path segments; byte slices are *)
(* sequences of strings, one per byte or per multipart delimiter.          *)
(***************************************************************************)
EXTENDS Integers, Sequences, FiniteSets, TLC

VARIABLES
    req,        \* builder id -> the Req struct (request.go:20-25)
    heap,       \* the *http.Transport objects shared between builders
    server,     \* the response the server at the builders' address gives
    views,      \* the Response structs created by send, in creation order
    fs,         \* the filesystem: path -> Some(content), or Absent
    handles,    \* the number of files this process holds open
    ret,        \* what the last call returned
    panicked    \* TRUE once a call has panicked (the goroutine is gone)

vars == <<req, heap, server, views, fs, handles, ret, panicked>>

\* a nil pointer or interface, a nil error, an absent string
Nil == "nil"
NoErr == "<nil>"
NoValue == ""
\* an optional value: Absent, or Some(x)
Absent == <<>>
Some(x) == <<x>>

----------------------------------------------------------------------------
(* Bounds and input domains *)

\* the number of Response structs one run creates
MaxViews == 1
\* how many times one view's stream may be read or closed in one run
MaxStreamCalls == 2
\* how many streams one run obtains from a request's GetBody
MaxReplays == 2

Builders == {1}

Addresses == { <<"H">>, <<"%">> }
ProxyURLs == { <<"p">>, <<"%", "z">> }
Durations == { 5, 30 }
TLSConfigs == { Nil, "cfgA" }
UserTransports == { Nil, "user" }
RequestBodies == { <<>>, <<"j", "s">> }
Boundaries == { "b1" }

\* maps of SetHeaders, as sets of <<key, value>> pairs with distinct keys
HeaderMaps ==
    { {},
      { <<"X-Token", "tok">> },
      { <<"content-type", "text/plain">> },
      { <<"Content-Type", "a/b">>, <<"content-type", "text/plain">> } }

\* the file and field lists of SetForm, each a sequence of maps: no entry
\* at all, a readable file, a missing file, a directory, a map of two
\* files of which one is missing, a missing file followed by a directory,
\* and two readable files
NoEntries == <<>>
TaskField == << { <<"taskId", "123456">> } >>
FormInputs ==
    { <<NoEntries, NoEntries>>,
      << << { <<"file", <<"in">>>> } >>, TaskField >>,
      << << { <<"file", <<"wrong", "path">>>> } >>, TaskField >>,
      << << { <<"file", <<"dl">>>> } >>, NoEntries >>,
      << << { <<"a", <<"in">>>>, <<"b", <<"wrong", "path">>>> } >>, TaskField >>,
      << << { <<"a", <<"wrong", "path">>>> }, { <<"b", <<"dl">>>> } >>,
         NoEntries >>,
      << << { <<"a", <<"in">>>> }, { <<"b", <<"out">>>> } >>, TaskField >> }

ContentTypes == { "text/plain" }

\* directories that exist (the working directory and dl); every other path
\* is a file or nothing
Dirs == { <<>>, <<"dl">> }

\* the paths a run can name
Paths ==
    { <<"in">>, <<"wrong", "path">>, <<"out">>, <<"dl", "x.bin">>,
      <<"x.bin">>, <<"nodir", "x.bin">> }

SavePaths == { <<"out">>, <<"wrong", "path">> }
DownloadDirs == { <<"dl">>, <<"nodir">> }

\* Content-Disposition values: none, "/", "attachment;", and attachments
\* naming x.bin and ../x.bin
Dispositions ==
    { [mediatype |-> "", filename |-> <<>>],
      [mediatype |-> "/", filename |-> <<>>],
      [mediatype |-> "attachment", filename |-> <<>>],
      [mediatype |-> "attachment", filename |-> <<"x.bin">>],
      [mediatype |-> "attachment", filename |-> <<"..", "x.bin">>] }

\* the responses a server may give
Responses ==
    [ status : {200},
      ctype  : {NoValue, "binary/octet-stream"},
      disp   : Dispositions,
      body   : { <<>>, <<"o", "k">> } ]

DefaultTimeout == 30

----------------------------------------------------------------------------
(* Strings, URLs, headers *)

Lower(c) == IF c = "H" THEN "h" ELSE c

\* strings.ToLower
ToLower(s) == [i \in DOMAIN s |-> Lower(s[i])]

HexDigits == {"0", "1", "2", "a", "b"}

\* url.Parse fails on a "%" that does not start a two-digit escape
URLParseFails(s) ==
    \E i \in DOMAIN s :
        /\ s[i] = "%"
        /\ ~(i + 2 <= Len(s) /\ s[i + 1] \in HexDigits /\ s[i + 2] \in HexDigits)

RECURSIVE Concat(_, _)
\* strings.Join
Concat(parts, sep) ==
    IF parts = <<>> THEN ""
    ELSE IF Len(parts) = 1 THEN parts[1]
    ELSE parts[1] \o sep \o Concat(Tail(parts), sep)

ErrURL(s) == "parse " \o Concat(s, "") \o ": invalid URL escape"

generateURLKeepingCase(address) ==
    IF URLParseFails(address)
    THEN [url |-> Absent, err |-> ErrURL(address)]
    ELSE [url |-> Some(address), err |-> NoErr]

\* generateURL: the address lower-cased, then parsed
generateURL(address) ==
    LET a == ToLower(address)
    IN  IF URLParseFails(a) THEN [url |-> Absent, err |-> ErrURL(a)]
        ELSE [url |-> Some(a), err |-> NoErr]

HeaderNames == {"Content-Type", "X-Token"}

\* textproto.CanonicalMIMEHeaderKey, on the keys used here
CanonicalKey(k) == IF k = "content-type" THEN "Content-Type" ELSE k

\* a header is a map from canonical names to the list of their values
HeaderAdd(h, k, v) == [h EXCEPT ![CanonicalKey(k)] = Append(@, v)]

\* http.Header.Set: the canonical key gets exactly this one value
HeaderSet(h, k, v) == [h EXCEPT ![CanonicalKey(k)] = <<v>>]

\* the orders in which Go may range over a map
Perms(m) ==
    { p \in [1..Cardinality(m) -> m] : \A i, j \in DOMAIN p : i # j => p[i] # p[j] }

RECURSIVE ApplyHeaders(_, _)
ApplyHeaders(h, entries) ==
    IF entries = <<>> THEN h
    ELSE ApplyHeaders(HeaderSet(h, entries[1][1], entries[1][2]), Tail(entries))

\* the entries of a slice of maps in one order Go may visit them
RECURSIVE Orders(_)
Orders(ms) ==
    IF ms = <<>> THEN { <<>> }
    ELSE { p \o r : p \in Perms(ms[1]), r \in Orders(Tail(ms)) }

----------------------------------------------------------------------------
(* The builder *)

\* http.Transport{}: no TLS configuration, no proxy
NewTransport == [tls |-> Nil, proxy |-> Absent]

\* make(http.Header): no name has a value
EmptyHeader == [n \in HeaderNames |-> <<>>]

\* New(address).  transport is the pointer held in client.Transport:
\* "default" is http.DefaultTransport, "user" a transport of the caller,
\* "own" the transport SetProxy allocated (kept in own), Nil a nil pointer.
\* getBody is the data the GetBody closure captured; replays are the
\* streams GetBody has returned so far, which their caller holds.
New(address) ==
    [ address       |-> address,
      method        |-> "GET",
      header        |-> EmptyHeader,
      body          |-> Absent,
      getBody       |-> Absent,
      replays       |-> <<>>,
      contentLength |-> 0,
      url           |-> Absent,
      transport     |-> "default",
      own           |-> NewTransport,
      timeout       |-> DefaultTimeout,
      err           |-> NoErr ]

\* the last call: its kind (op), receiver and path argument (arg), and what
\* it handed back: the error, the view a verb returns (0: nil), whether
\* client.Do was invoked, and the results of the view methods; env is what
\* the stream and the file system did for the call when it used them
Untouched == [rd |-> "none", cl |-> "none", io |-> "none"]

NoReturn ==
    [ op |-> "none", recv |-> "none", id |-> 0, arg |-> <<>>, err |-> NoErr,
      view |-> 0, dispatched |-> FALSE, status |-> 0, data |-> <<>>,
      ctype |-> NoValue, path |-> <<>>, env |-> Untouched ]

\* a configuration call returns the builder itself
Chained(b) == [NoReturn EXCEPT !.op = "config", !.recv = "builder", !.id = b]

Config(b, r) ==
    /\ ~panicked
    /\ req' = [req EXCEPT ![b] = r]
    /\ ret' = Chained(b)
    /\ UNCHANGED <<heap, server, views, fs, handles, panicked>>

\* a nil pointer dereference
Panic(op, recv, id) ==
    /\ panicked' = TRUE
    /\ ret' = [NoReturn EXCEPT !.op = op, !.recv = recv, !.id = id,
                               !.err = "panic: nil pointer dereference"]

\* SetTLSConfig: writes through the transport pointer, whatever it points at
SetTLSConfig(b) ==
    \E c \in TLSConfigs :
        LET t == req[b].transport
        IN  CASE t = Nil ->
                   /\ ~panicked
                   /\ Panic("config", "builder", b)
                   /\ UNCHANGED <<req, heap, server, views, fs, handles>>
              [] t = "own" ->
                   Config(b, [req[b] EXCEPT !.own = [@ EXCEPT !.tls = c]])
              [] OTHER ->
                   /\ ~panicked
                   /\ heap' = [heap EXCEPT ![t] = [@ EXCEPT !.tls = c]]
                   /\ ret' = Chained(b)
                   /\ UNCHANGED <<req, server, views, fs, handles, panicked>>

SetTimeout(b) ==
    \E d \in Durations :
        Config(b, [req[b] EXCEPT !.timeout = d])

SetHeaders(b) ==
    \E m \in HeaderMaps : \E order \in Perms(m) :
        Config(b, [req[b] EXCEPT !.header = ApplyHeaders(@, order)])

WithContentType(r, contentType) ==
    [r EXCEPT !.header = HeaderSet(@, "Content-Type", contentType)]

SetContentType(b) ==
    \E ct \in ContentTypes :
        Config(b, WithContentType(req[b], ct))

\* SetTransport: the pointer is replaced; a transport SetProxy had allocated
\* is no longer referenced
SetTransport(b) ==
    \E t \in UserTransports :
        Config(b, [req[b] EXCEPT !.transport = t, !.own = NewTransport])

WithBodyWithoutGetBody(r, data) ==
    [r EXCEPT !.body = Some(data), !.contentLength = Len(data)]

WithBody(r, data) ==
    [r EXCEPT !.body = Some(data), !.getBody = Some(data),
              !.contentLength = Len(data)]

SetBody(b) ==
    \E data \in RequestBodies :
        Config(b, WithBody(req[b], data))

\* bytes.NewReader(data): a reader of its own over the data, at offset 0
NewReader(data) == [src |-> data, pos |-> 0]

\* what is left to read from a reader
Remaining(rd) == SubSeq(rd.src, rd.pos + 1, Len(rd.src))

openReplayReusingReader(r) ==
    IF r.replays = <<>> THEN NewReader(r.getBody[1]) ELSE r.replays[1]

\* the closure SetBody and SetForm install as GetBody
openReplay(r) == NewReader(r.getBody[1])

\* r.request.GetBody(), as net/http calls it to send the body again
GetBody(b) ==
    /\ ~panicked
    /\ req[b].getBody # Absent
    /\ Len(req[b].replays) < MaxReplays
    /\ LET stream == openReplay(req[b])
       IN  /\ req' = [req EXCEPT ![b].replays = Append(@, stream)]
           /\ ret' = [NoReturn EXCEPT !.op = "GetBody", !.recv = "builder",
                                      !.id = b, !.data = Remaining(stream)]
    /\ UNCHANGED <<heap, server, views, fs, handles, panicked>>

\* a Read on one of the streams GetBody returned
ReadReplay(b) ==
    /\ ~panicked
    /\ \E i \in DOMAIN req[b].replays :
       \E n \in 1..Len(Remaining(req[b].replays[i])) :
         /\ req' = [req EXCEPT ![b].replays[i].pos = @ + n]
         /\ ret' = [NoReturn EXCEPT
                        !.op = "Read", !.recv = "builder", !.id = b,
                        !.data = SubSeq(Remaining(req[b].replays[i]), 1, n)]
    /\ UNCHANGED <<heap, server, views, fs, handles, panicked>>

SetBodyXML(b) ==
    Config(b, WithContentType(req[b], "application/xml; charset=UTF-8"))

PathString(path) == Concat(path, "/")

ErrOpen(path) == "open " \o PathString(path) \o ": no such file or directory"
ErrRead(path) == "read " \o PathString(path) \o ": is a directory"

\* multipart.Writer.CreateFormFile: the delimiter and the part's header line
FilePart(bd, key, value) ==
    "--" \o bd \o " name=" \o key \o " filename=" \o PathString(value)

FieldPart(bd, key) == "--" \o bd \o " name=" \o key

ClosingDelimiter(bd) == "--" \o bd \o "--"

createFormFileClosingOnSuccessOnly(buf, bd, key, value) ==
    LET part == Append(buf, FilePart(bd, key, value))
    IN  IF value \notin Dirs /\ fs[value] = Absent
        THEN [buf |-> part, err |-> ErrOpen(value), open |-> 0]
        ELSE IF value \in Dirs
        THEN [buf |-> part, err |-> ErrRead(value), open |-> 1]
        ELSE [buf |-> part \o fs[value][1], err |-> NoErr, open |-> 0]

\* createFormFile: the part header goes into the buffer, then the file is
\* opened (os.Open opens a directory too), copied into the part, and closed
\* by the deferred f.Close() on every return after the open; open is the
\* number of files the call leaves open
createFormFile(buf, bd, key, value) ==
    LET part == Append(buf, FilePart(bd, key, value))
        opened == 1
        closed == 1
    IN  IF value \notin Dirs /\ fs[value] = Absent
        THEN [buf |-> part, err |-> ErrOpen(value), open |-> 0]
        ELSE IF value \in Dirs
        THEN [buf |-> part, err |-> ErrRead(value), open |-> opened - closed]
        ELSE [buf |-> part \o fs[value][1], err |-> NoErr,
              open |-> opened - closed]

\* the loop over the files: the first error ends it
RECURSIVE WriteFiles(_, _, _)
WriteFiles(buf, bd, entries) ==
    IF entries = <<>> THEN [buf |-> buf, err |-> NoErr, open |-> 0]
    ELSE LET one == createFormFile(buf, bd, entries[1][1], entries[1][2])
         IN  IF one.err # NoErr THEN one
             ELSE LET rest == WriteFiles(one.buf, bd, Tail(entries))
                  IN  [rest EXCEPT !.open = @ + one.open]

\* multipart.Writer.WriteField, on a bytes.Buffer, for each field in turn
RECURSIVE WriteFields(_, _, _)
WriteFields(buf, bd, entries) ==
    IF entries = <<>> THEN buf
    ELSE WriteFields(buf \o <<FieldPart(bd, entries[1][1]), entries[1][2]>>,
                     bd, Tail(entries))

FormDataContentType(bd) == "multipart/form-data; boundary=" \o bd

BuildFormKeepingPartial(r, bd, fileOrder, fieldOrder) ==
    LET written == WriteFiles(<<>>, bd, fileOrder)
    IN  IF written.err # NoErr
        THEN [WithBody(r, written.buf) EXCEPT !.err = written.err]
        ELSE LET buf == Append(WriteFields(written.buf, bd, fieldOrder),
                               ClosingDelimiter(bd))
             IN  WithContentType(WithBody(r, buf), FormDataContentType(bd))

BuildFormUnfinished(r, bd, fileOrder, fieldOrder) ==
    LET written == WriteFiles(<<>>, bd, fileOrder)
    IN  IF written.err # NoErr
        THEN [r EXCEPT !.err = written.err]
        ELSE WithContentType(
                 WithBody(r, WriteFields(written.buf, bd, fieldOrder)),
                 FormDataContentType(bd))

\* SetForm after its early return: the files, the fields, the closing
\* delimiter, then body, GetBody, ContentLength and Content-Type
BuildForm(r, bd, fileOrder, fieldOrder) ==
    LET written == WriteFiles(<<>>, bd, fileOrder)
    IN  IF written.err # NoErr
        THEN [r EXCEPT !.err = written.err]
        ELSE LET buf == Append(WriteFields(written.buf, bd, fieldOrder),
                               ClosingDelimiter(bd))
             IN  WithContentType(WithBody(r, buf), FormDataContentType(bd))

\* SetForm(files, fields), the maps visited in fileOrder and fieldOrder and
\* the multipart writer using boundary bd
SetFormWith(b, bd, fileOrder, fieldOrder) ==
    IF req[b].err # NoErr
    THEN Config(b, req[b])
    ELSE /\ ~panicked
         /\ req' = [req EXCEPT ![b] = BuildForm(req[b], bd, fileOrder, fieldOrder)]
         /\ handles' = handles + WriteFiles(<<>>, bd, fileOrder).open
         /\ ret' = Chained(b)
         /\ UNCHANGED <<heap, server, views, fs, panicked>>

SetForm(b) ==
    \E input \in FormInputs, bd \in Boundaries :
    \E fileOrder \in Orders(input[1]), fieldOrder \in Orders(input[2]) :
        SetFormWith(b, bd, fileOrder, fieldOrder)

\* SetProxy: a parse failure is recorded; otherwise a fresh transport that
\* carries only the proxy replaces the client's
SetProxy(b) ==
    \E u \in ProxyURLs :
        IF URLParseFails(u)
        THEN Config(b, [req[b] EXCEPT !.err = ErrURL(u)])
        ELSE Config(b, [req[b] EXCEPT !.transport = "own",
                                   !.own = [NewTransport EXCEPT !.proxy = u]])

----------------------------------------------------------------------------
(* Dispatch *)

ErrGetBody ==
    "request.GetBody cannot be nil because it prevents redirection when content length>0"
ErrTransport == "transport error"

\* &Response{resp: resp}: the response, its stream unread and open, no data
NewView(resp) ==
    [ resp |-> Some(resp), data |-> <<>>, reads |-> 0, consumed |-> FALSE,
      closes |-> 0 ]

\* a verb returns (*Response, error)
VerbReturn(b, err, view, dispatched) ==
    [NoReturn EXCEPT !.op = "verb", !.recv = "builder", !.id = b,
                     !.err = err, !.view = view, !.dispatched = dispatched]

executeWrappingFailedResponse(b, method, r) ==
    LET m == [r EXCEPT !.method = method]
        u == generateURL(r.address)
    IN  IF u.err # NoErr
        THEN /\ req' = [req EXCEPT ![b] = m]
             /\ ret' = VerbReturn(b, u.err, 0, FALSE)
             /\ UNCHANGED <<heap, server, views, fs, handles, panicked>>
        ELSE /\ req' = [req EXCEPT ![b] = [m EXCEPT !.url = u.url]]
             /\ UNCHANGED <<heap, server, fs, handles>>
             /\ IF m.transport = Nil
                THEN /\ Panic("verb", "builder", b)
                     /\ UNCHANGED views
                ELSE /\ UNCHANGED panicked
                     /\ views' = Append(views, NewView(server))
                     /\ \/ ret' = VerbReturn(b, ErrTransport, Len(views) + 1, TRUE)
                        \/ ret' = VerbReturn(b, NoErr, Len(views) + 1, TRUE)

\* send from "Set method" on: the method, the URL, client.Do, the Response
execute(b, method, r) ==
    LET m == [r EXCEPT !.method = method]
        u == generateURL(r.address)
    IN  IF u.err # NoErr
        THEN /\ req' = [req EXCEPT ![b] = m]
             /\ ret' = VerbReturn(b, u.err, 0, FALSE)
             /\ UNCHANGED <<heap, server, views, fs, handles, panicked>>
        ELSE /\ req' = [req EXCEPT ![b] = [m EXCEPT !.url = u.url]]
             /\ UNCHANGED <<heap, server, fs, handles>>
             /\ IF m.transport = Nil
                THEN \* client.Do calls RoundTrip on the nil *http.Transport
                     /\ Panic("verb", "builder", b)
                     /\ UNCHANGED views
                ELSE /\ UNCHANGED panicked
                     /\ \/ /\ ret' = VerbReturn(b, ErrTransport, 0, TRUE)
                           /\ UNCHANGED views
                        \/ /\ views' = Append(views, NewView(server))
                           /\ ret' = VerbReturn(b, NoErr, Len(views) + 1, TRUE)

\* a verb that returns err before anything is sent
refuse(b, r, err) ==
    /\ req' = [req EXCEPT ![b] = r]
    /\ ret' = VerbReturn(b, err, 0, FALSE)
    /\ UNCHANGED <<heap, server, views, fs, handles, panicked>>

sendIgnoringError(b, method, r) ==
    /\ ~panicked
    /\ Len(views) < MaxViews
    /\ IF r.contentLength > 0 /\ r.getBody = Absent
       THEN refuse(b, r, ErrGetBody)
       ELSE execute(b, method, r)

sendWithoutGetBodyCheck(b, method, r) ==
    /\ ~panicked
    /\ Len(views) < MaxViews
    /\ IF r.err # NoErr
       THEN refuse(b, r, r.err)
       ELSE execute(b, method, r)

\* send(method) on builder b whose struct is r (PostJSON has set the
\* Content-Type in r before)
send(b, method, r) ==
    /\ ~panicked
    /\ Len(views) < MaxViews
    /\ IF r.err # NoErr
       THEN refuse(b, r, r.err)
       ELSE IF r.contentLength > 0 /\ r.getBody = Absent
       THEN refuse(b, r, ErrGetBody)
       ELSE execute(b, method, r)

PostJSONWithoutContentType(b) == send(b, "POST", req[b])

Get(b) == send(b, "GET", req[b])
Post(b) == send(b, "POST", req[b])
PostJSON(b) == send(b, "POST", WithContentType(req[b], "application/json"))
Put(b) == send(b, "PUT", req[b])
Delete(b) == send(b, "DELETE", req[b])

----------------------------------------------------------------------------
(* The filesystem *)

Parent(path) == SubSeq(path, 1, Len(path) - 1)

\* os.Create succeeds on a path that is no directory, inside a directory
Creatable(path) ==
    /\ path \in Paths
    /\ path \notin Dirs
    /\ Parent(path) \in Dirs

RECURSIVE CleanFrom(_, _)
CleanFrom(done, rest) ==
    IF rest = <<>> THEN done
    ELSE IF rest[1] = "." \/ rest[1] = ""
    THEN CleanFrom(done, Tail(rest))
    ELSE IF rest[1] = ".." /\ done # <<>> /\ done[Len(done)] # ".."
    THEN CleanFrom(Parent(done), Tail(rest))
    ELSE CleanFrom(Append(done, rest[1]), Tail(rest))

\* path.Join of a relative directory and a name: joined, then path.Clean
PathJoin(dir, name) == CleanFrom(<<>>, dir \o name)

----------------------------------------------------------------------------
(* The view *)

ErrRespNil == "http.Response is nil"
ErrBodyNil == "http.Response's Body is nil"
ErrStreamRead == "read error"
ErrStreamClose == "close error"
ErrHeadersMissing == "http response headers missing"
ErrDispositionMissing == "content-disposition header missing"
ErrMediaType == "mime: no media type"
ErrFilenameMissing == "filename missing in content-disposition"
ErrEmpty(path) ==
    "Downloaded file is empty. Can not save empty response to file "
        \o PathString(path)
ErrCreate(path) == "open " \o PathString(path) \o ": cannot create"
ErrWrite == "write error"
ErrSync == "sync error"

NoResponse ==
    [ status |-> 0, ctype |-> NoValue,
      disp |-> [mediatype |-> "", filename |-> <<>>], body |-> <<>> ]

\* Response{}: no http.Response
ZeroView == [ NewView(NoResponse) EXCEPT !.resp = Absent ]

\* what a read of the stream may do: past a Close, unread content is gone
ReadOutcomes(v) ==
    IF v.closes > 0 /\ ~v.consumed /\ v.resp[1].body # <<>>
    THEN {"err"} ELSE {"ok", "err"}

CloseOutcomes == {"ok", "err"}

\* readBody, with what the stream's ReadAll (rd) and Close (cl) do
readBody(v, rd, cl) ==
    IF Len(v.data) # 0
    THEN [view |-> v, data |-> v.data, err |-> NoErr]
    ELSE IF v.resp = Absent
    THEN [view |-> v, data |-> <<>>, err |-> ErrRespNil]
    ELSE IF rd = "err"
    THEN [view |-> [v EXCEPT !.reads = @ + 1], data |-> <<>>,
          err |-> ErrStreamRead]
    ELSE LET b == IF v.consumed THEN <<>> ELSE v.resp[1].body
             read == [v EXCEPT !.reads = @ + 1, !.consumed = TRUE,
                               !.data = b, !.closes = @ + 1]
         IN  IF cl = "err"
             THEN [view |-> read, data |-> <<>>, err |-> ErrStreamClose]
             ELSE [view |-> read, data |-> b, err |-> NoErr]

\* SaveFile from os.Create on: create or truncate, copy, sync (io is what
\* the copy and the sync do)
writeFile(v, files, path, data, io) ==
    IF ~Creatable(path)
    THEN [view |-> v, fs |-> files, err |-> ErrCreate(path)]
    ELSE IF io = "copy"
    THEN [view |-> v, fs |-> [files EXCEPT ![path] = Some(<<>>)],
          err |-> ErrWrite]
    ELSE IF io = "sync"
    THEN [view |-> v, fs |-> [files EXCEPT ![path] = Some(data)],
          err |-> ErrSync]
    ELSE [view |-> v, fs |-> [files EXCEPT ![path] = Some(data)],
          err |-> NoErr]

saveFileAllowingEmpty(v, files, path, rd, cl, io) ==
    LET r == readBody(v, rd, cl)
    IN  IF r.err # NoErr
        THEN [view |-> r.view, fs |-> files, err |-> r.err]
        ELSE writeFile(r.view, files, path, r.data, io)

\* SaveFile
saveFile(v, files, path, rd, cl, io) ==
    LET r == readBody(v, rd, cl)
    IN  IF r.err # NoErr
        THEN [view |-> r.view, fs |-> files, err |-> r.err]
        ELSE IF Len(r.data) = 0
        THEN [view |-> r.view, fs |-> files, err |-> ErrEmpty(path)]
        ELSE writeFile(r.view, files, path, r.data, io)

IOOutcomes == {"ok", "copy", "sync"}

\* mime.ParseMediaType of a Content-Disposition value
ParseMediaType(disp) ==
    IF disp.mediatype = "/"
    THEN [filename |-> <<>>, err |-> ErrMediaType]
    ELSE [filename |-> disp.filename, err |-> NoErr]

\* DownloadFile from the Content-Disposition header to the filename
dispositionFilenameUnchecked(resp) ==
    IF resp.disp.mediatype = ""
    THEN [filename |-> <<>>, err |-> ErrDispositionMissing]
    ELSE ParseMediaType(resp.disp)

dispositionFilename(resp) ==
    LET parsed == ParseMediaType(resp.disp)
    IN  IF resp.disp.mediatype = ""
        THEN [filename |-> <<>>, err |-> ErrDispositionMissing]
        ELSE IF parsed.err # NoErr
        THEN parsed
        ELSE IF parsed.filename = <<>>
        THEN [filename |-> <<>>, err |-> ErrFilenameMissing]
        ELSE parsed

\* the path DownloadFile saves to
filePathIgnoringDir(downloadDir, fileName) == fileName

filePathOf(downloadDir, fileName) == PathJoin(downloadDir, fileName)

\* DownloadFile
downloadFile(v, files, dir, rd, cl, io) ==
    LET failed(ctype, err) ==
            [view |-> v, fs |-> files, ctype |-> ctype, path |-> <<>>,
             err |-> err]
    IN  IF v.resp = Absent
        THEN failed(NoValue, ErrHeadersMissing)
        ELSE LET contentType == v.resp[1].ctype
                 name == dispositionFilename(v.resp[1])
             IN  IF name.err # NoErr
                 THEN failed(contentType, name.err)
                 ELSE LET filePath == filePathOf(dir, name.filename)
                          saved == saveFile(v, files, filePath, rd, cl, io)
                      IN  [view |-> saved.view, fs |-> saved.fs,
                           ctype |-> contentType,
                           path |-> IF saved.err # NoErr THEN <<>>
                                    ELSE filePath,
                           err |-> saved.err]

ViewReturn(op, i) == [NoReturn EXCEPT !.op = op, !.recv = "view", !.id = i]

\* the calls on a view that send returned
CanUseStream(i) ==
    /\ ~panicked
    /\ views[i].reads < MaxStreamCalls
    /\ views[i].closes < MaxStreamCalls

StatusCode(i) ==
    /\ ~panicked
    /\ ret' = [ViewReturn("StatusCode", i) EXCEPT
                   !.status = views[i].resp[1].status]
    /\ UNCHANGED <<req, heap, server, views, fs, handles, panicked>>

Headers(i) ==
    /\ ~panicked
    /\ ret' = [ViewReturn("Headers", i) EXCEPT
                   !.ctype = views[i].resp[1].ctype]
    /\ UNCHANGED <<req, heap, server, views, fs, handles, panicked>>

Body(i) ==
    /\ CanUseStream(i)
    /\ \E rd \in ReadOutcomes(views[i]), cl \in CloseOutcomes :
         LET r == readBody(views[i], rd, cl)
         IN  /\ views' = [views EXCEPT ![i] = r.view]
             /\ ret' = [ViewReturn("Body", i) EXCEPT
                            !.data = r.data, !.err = r.err,
                            !.env = [Untouched EXCEPT !.rd = rd, !.cl = cl]]
    /\ UNCHANGED <<req, heap, server, fs, handles, panicked>>

SaveFile(i) ==
    /\ CanUseStream(i)
    /\ \E path \in SavePaths, rd \in ReadOutcomes(views[i]),
          cl \in CloseOutcomes, io \in IOOutcomes :
         LET r == saveFile(views[i], fs, path, rd, cl, io)
         IN  /\ views' = [views EXCEPT ![i] = r.view]
             /\ fs' = r.fs
             /\ ret' = [ViewReturn("SaveFile", i) EXCEPT
                            !.arg = path, !.err = r.err,
                            !.env = [rd |-> rd, cl |-> cl, io |-> io]]
    /\ UNCHANGED <<req, heap, server, handles, panicked>>

DownloadFile(i) ==
    /\ CanUseStream(i)
    /\ \E dir \in DownloadDirs, rd \in ReadOutcomes(views[i]),
          cl \in CloseOutcomes, io \in IOOutcomes :
         LET r == downloadFile(views[i], fs, dir, rd, cl, io)
         IN  /\ views' = [views EXCEPT ![i] = r.view]
             /\ fs' = r.fs
             /\ ret' = [ViewReturn("DownloadFile", i) EXCEPT
                            !.arg = dir, !.ctype = r.ctype,
                            !.path = r.path, !.err = r.err,
                            !.env = [rd |-> rd, cl |-> cl, io |-> io]]
    /\ UNCHANGED <<req, heap, server, handles, panicked>>

\* Close: the stream of a view from send is never nil, so it is closed
Close(i) ==
    /\ CanUseStream(i)
    /\ \E cl \in CloseOutcomes :
         /\ views' = [views EXCEPT ![i] = [@ EXCEPT !.closes = @ + 1]]
         /\ ret' = [ViewReturn("Close", i) EXCEPT
                        !.err = IF cl = "err" THEN ErrStreamClose ELSE NoErr,
                        !.env = [Untouched EXCEPT !.cl = cl]]
    /\ UNCHANGED <<req, heap, server, fs, handles, panicked>>

\* the same calls on a nil *Response ("nilptr") and on Response{} ("zero")
AbsentReceivers == {"nilptr", "zero"}

OnAbsent(recv) ==
    /\ ~panicked
    /\ UNCHANGED <<req, heap, server, views, fs, handles>>
    /\ \/ \* StatusCode, Headers, Close: r == nil || r.resp == nil
          /\ \E op \in {"StatusCode", "Headers", "Close"} :
               ret' = [NoReturn EXCEPT !.op = op, !.recv = recv]
          /\ UNCHANGED panicked
       \/ \* DownloadFile: Headers() is nil
          /\ \E dir \in DownloadDirs :
               LET r == downloadFile(ZeroView, fs, dir, "ok", "ok", "ok")
               IN  ret' = [NoReturn EXCEPT !.op = "DownloadFile",
                                           !.recv = recv, !.arg = dir,
                                           !.ctype = r.ctype,
                                           !.path = r.path, !.err = r.err]
          /\ UNCHANGED panicked
       \/ \* Body, SaveFile: readBody reads r.data first
          \E op \in {"Body", "SaveFile"} :
            IF recv = "nilptr"
            THEN Panic(op, recv, 0)
            ELSE /\ ret' = [NoReturn EXCEPT
                                !.op = op, !.recv = recv,
                                !.err = readBody(ZeroView, "ok", "ok").err]
                 /\ UNCHANGED panicked

----------------------------------------------------------------------------
(* The program *)

\* http.DefaultTransport, and a transport the caller made
DefaultTransport == [tls |-> Nil, proxy |-> <<"$", "e", "n", "v">>]

InitFS ==
    [p \in Paths |->
        IF p = <<"in">> THEN Some(<<"f", "g">>)
        ELSE IF p = <<"out">> THEN Some(<<"o", "l", "d">>)
        ELSE Absent]

\* the server of the request tests: a JSON document
PlainServer ==
    [ status |-> 200, ctype |-> "application/json",
      disp |-> [mediatype |-> "", filename |-> <<>>], body |-> <<"o", "k">> ]

\* the program's start: the builders ids, each from New, and no call made
StartOf(ids, builders, servers) ==
    /\ req \in [ids -> builders]
    /\ heap = [default |-> DefaultTransport, user |-> NewTransport]
    /\ server \in servers
    /\ views = <<>>
    /\ fs = InitFS
    /\ handles = 0
    /\ ret = NoReturn
    /\ panicked = FALSE

Start(builders, servers) == StartOf(Builders, builders, servers)

\* the configuration calls, and the verbs
ConfigStep(b) ==
    \/ SetTLSConfig(b)
    \/ SetTimeout(b)
    \/ SetHeaders(b)
    \/ SetContentType(b)
    \/ SetTransport(b)
    \/ SetBody(b)
    \/ SetBodyXML(b)
    \/ SetForm(b)
    \/ SetProxy(b)

VerbStep(b) ==
    \/ Get(b)
    \/ Post(b)
    \/ PostJSON(b)
    \/ Put(b)
    \/ Delete(b)

VerbNext ==
    \/ \E b \in DOMAIN req : Get(b)
    \/ \E b \in DOMAIN req : Post(b)
    \/ \E b \in DOMAIN req : PostJSON(b)
    \/ \E b \in DOMAIN req : Put(b)
    \/ \E b \in DOMAIN req : Delete(b)

BuilderNext ==
    \/ \E b \in DOMAIN req : SetTLSConfig(b)
    \/ \E b \in DOMAIN req : SetTimeout(b)
    \/ \E b \in DOMAIN req : SetHeaders(b)
    \/ \E b \in DOMAIN req : SetContentType(b)
    \/ \E b \in DOMAIN req : SetTransport(b)
    \/ \E b \in DOMAIN req : SetBody(b)
    \/ \E b \in DOMAIN req : SetBodyXML(b)
    \/ \E b \in DOMAIN req : SetForm(b)
    \/ \E b \in DOMAIN req : SetProxy(b)
    \/ VerbNext

ViewNext ==
    \/ \E i \in DOMAIN views : StatusCode(i)
    \/ \E i \in DOMAIN views : Headers(i)
    \/ \E i \in DOMAIN views : Body(i)
    \/ \E i \in DOMAIN views : SaveFile(i)
    \/ \E i \in DOMAIN views : DownloadFile(i)
    \/ \E i \in DOMAIN views : Close(i)
    \/ \E recv \in AbsentReceivers : OnAbsent(recv)

\* a program that configures builders and sends
NewBuilders == { New(a) : a \in Addresses }
Init == Start(NewBuilders, {PlainServer})
Next == BuilderNext
Spec == Init /\ [][Next]_vars

\* a program that only sets what the request carries (headers, body, form),
\* may record an error, and sends
NextContent ==
    \/ \E b \in DOMAIN req : SetHeaders(b)
    \/ \E b \in DOMAIN req : SetContentType(b)
    \/ \E b \in DOMAIN req : SetBody(b)
    \/ \E b \in DOMAIN req : SetBodyXML(b)
    \/ \E b \in DOMAIN req : SetForm(b)
    \/ \E b \in DOMAIN req : SetProxy(b)
    \/ VerbNext
SpecContent == Init /\ [][NextContent]_vars

\* a program that sets bodies, with net/http asking for the body again and
\* reading it
NextBody ==
    \/ \E b \in DOMAIN req : SetBody(b)
    \/ \E b \in DOMAIN req : GetBody(b)
    \/ \E b \in DOMAIN req : ReadReplay(b)
SpecBody == Init /\ [][NextBody]_vars

\* a program that sets the client and the body of two builders, its calls
\* on them interleaved
BuilderPair == {1, 2}
InitPair == StartOf(BuilderPair, { New(<<"H">>) }, {PlainServer})
NextPair ==
    \/ \E b \in DOMAIN req : SetTLSConfig(b)
    \/ \E b \in DOMAIN req : SetTimeout(b)
    \/ \E b \in DOMAIN req : SetTransport(b)
    \/ \E b \in DOMAIN req : SetProxy(b)
    \/ \E b \in DOMAIN req : SetBody(b)
SpecPair == InitPair /\ [][NextPair]_vars

\* a program that sends one unconfigured request, as New(url).Get() does,
\* and uses the view it gets, against every server
InitView == Start(NewBuilders, Responses)
NextView ==
    \/ \E b \in DOMAIN req : views = <<>> /\ Get(b)
    \/ ViewNext
SpecView == InitView /\ [][NextView]_vars

\* a program inside the package, which can fill the fields of a Req itself
\* (as the tests do with &Req{err: ...}): a content length, with or without
\* GetBody, and an error, on a builder from New; it may then set a body or
\* a form, and sends
PackageBuilders ==
    { [New(a) EXCEPT !.contentLength = n, !.getBody = g, !.err = e] :
        a \in Addresses, n \in {0, Len(<<"j", "s">>)},
        g \in {Absent, Some(<<"j", "s">>)}, e \in {NoErr, "Test Error"} }
InitPackage == Start(PackageBuilders, {PlainServer})
NextPackage ==
    \/ \E b \in DOMAIN req : SetBody(b)
    \/ \E b \in DOMAIN req : SetForm(b)
    \/ VerbNext
SpecPackage == InitPackage /\ [][NextPackage]_vars

----------------------------------------------------------------------------
(* The specification's statements about the builder *)

\* C1: on a builder that holds a recorded error, a configuration call
\* changes nothing: the builder's fields (headers, body, content length,
\* GetBody, timeout, transport pointer, error) and the transports' TLS
\* configuration and proxy stay as they were.
C1_ConfigAfterErrorIsNoOp ==
    [][\A b \in DOMAIN req :
          (req[b].err # NoErr /\ ConfigStep(b))
              => (req'[b] = req[b] /\ heap' = heap)]_vars

\* C2: the builder's error is set at most once: once an error is recorded,
\* no later call replaces it, so the next verb returns the first one.
C2_ErrorSetAtMostOnce ==
    [][\A b \in DOMAIN req :
          req[b].err # NoErr => req'[b].err = req[b].err]_vars

\* C3: a verb on a builder whose error is set returns a nil response with
\* that same error and does not call client.Do.
C3_VerbReturnsRecordedError ==
    (ret.op = "verb" /\ req[ret.id].err # NoErr)
        => /\ ret.err = req[ret.id].err
           /\ ret.view = 0
           /\ ~ret.dispatched
           /\ ~panicked

C3_Witness ==
    /\ ret.op = "verb"
    /\ req[ret.id].err # NoErr
    /\ ret.err = req[ret.id].err
    /\ ~ret.dispatched

\* C6: no call panics: every call returns, with its failure as an error.
C6_NoPanic == ~panicked

\* C10: a verb on an error-free builder with a content length above zero
\* and no GetBody returns the GetBody error and a nil response without
\* calling client.Do; no configuration call has recorded an error for it.
C10_MissingGetBodyFailsAtDispatch ==
    (/\ ret.op = "verb"
     /\ req[ret.id].err = NoErr
     /\ req[ret.id].contentLength > 0
     /\ req[ret.id].getBody = Absent)
        => /\ ret.err = ErrGetBody
           /\ ret.view = 0
           /\ ~ret.dispatched
           /\ ~panicked

C10_Witness ==
    /\ ret.op = "verb"
    /\ req[ret.id].err = NoErr
    /\ req[ret.id].contentLength > 0
    /\ req[ret.id].getBody = Absent
    /\ ret.err = ErrGetBody


----------------------------------------------------------------------------
(* The specification's statements about the view *)

\* the step is a call of op on a view that a verb returned
ViewCall(op) == ret'.op = op /\ ret'.recv = "view"

\* the call had the body: cached before it, or read and closed without error
Materialized ==
    \/ views[ret'.id].data # <<>>
    \/ ret'.env.rd = "ok" /\ ret'.env.cl = "ok"

\* C4: once Body has returned bytes without error, the next call on the view
\* does not read the stream again, and if it is Body it returns the same
\* bytes without error, also when the body has length zero.
C4_BodyReadsStreamOnce ==
    [][(ret.op = "Body" /\ ret.recv = "view" /\ ret.err = NoErr)
          => /\ views'[ret.id].reads = views[ret.id].reads
             /\ ViewCall("Body") => (ret'.err = NoErr /\ ret'.data = ret.data)]_vars

\* C5: a Close issued right after a Body that read the stream and closed it
\* without error does not close the stream a second time, and returns no
\* error.
C5_CloseAfterBodySkipsStream ==
    [][(/\ ret.op = "Body" /\ ret.recv = "view" /\ ret.err = NoErr
        /\ ViewCall("Close") /\ ret'.id = ret.id)
          => /\ views'[ret.id].closes = views[ret.id].closes
             /\ ret'.err = NoErr]_vars

\* C7: a SaveFile whose materialized body is empty returns an error and
\* leaves the file system as it was; on a non-empty materialized body and a
\* path that can be created, written and synced it returns no error and the
\* file at the path holds exactly the body.
C7_SaveFileWritesBodyOrFailsOnEmpty ==
    [][(ViewCall("SaveFile") /\ Materialized)
          => LET body == views'[ret'.id].data
                 path == ret'.arg
             IN  /\ body = <<>> => (ret'.err = ErrEmpty(path) /\ fs' = fs)
                 /\ (body # <<>> /\ Creatable(path) /\ ret'.env.io = "ok")
                       => /\ ret'.err = NoErr
                          /\ fs' = [fs EXCEPT ![path] = Some(body)]]_vars

C7_Witness ==
    /\ ret.op = "SaveFile" /\ ret.recv = "view" /\ ret.err = NoErr
    /\ ret.arg = <<"out">>
    /\ fs[ret.arg] = Some(server.body)
    /\ server.body # <<>>

\* the response names a file and has a non-empty body
NamesFile == server.disp.filename # <<>> /\ server.body # <<>>

\* the results the specification gives for a DownloadFile of such a response
Downloaded ==
    LET path == PathJoin(ret'.arg, server.disp.filename)
    IN  /\ ret'.err = NoErr
        /\ ret'.ctype = server.ctype
        /\ ret'.path = path
        /\ fs' = [fs EXCEPT ![path] = Some(server.body)]

\* C8 as the specification states it: DownloadFile on a response that names
\* a file f and has a non-empty body B returns no error, the Content-Type
\* value and the directory joined with f, and the file there holds B.
C8_DownloadAlwaysSucceeds ==
    [][(ViewCall("DownloadFile") /\ NamesFile) => Downloaded]_vars

\* C8: DownloadFile on a response that names a file f and has a non-empty
\* body B returns no error, the Content-Type value (empty when the header is
\* absent) and the directory joined with f, and the file there holds B,
\* whenever the body is cached or its stream is read and closed without
\* error and the joined path can be created, written and synced.
C8_DownloadSucceedsWhenIOSucceeds ==
    [][(/\ ViewCall("DownloadFile") /\ NamesFile
        /\ Materialized
        /\ Creatable(PathJoin(ret'.arg, server.disp.filename))
        /\ ret'.env.io = "ok") => Downloaded]_vars

C8_Witness ==
    /\ ret.op = "DownloadFile" /\ ret.recv = "view" /\ ret.err = NoErr
    /\ server.disp.filename = <<"x.bin">>
    /\ ret.arg = <<"dl">>
    /\ ret.path = <<"dl", "x.bin">>
    /\ fs[ret.path] = Some(server.body)
    /\ server.body # <<>>

\* C9: DownloadFile fails with "content-disposition header missing" when the
\* response has no Content-Disposition, fails when the value is malformed,
\* and fails with "filename missing in content-disposition" when the value
\* has no filename; in each case it returns an empty path, writes no file
\* and leaves the stream and the cached body alone.
C9_BadDispositionFailsBeforeReading ==
    [][ViewCall("DownloadFile")
          => LET disp == server.disp
                 untouched == /\ ret'.path = <<>>
                              /\ fs' = fs
                              /\ views' = views
             IN  /\ disp.mediatype = ""
                    => (ret'.err = ErrDispositionMissing /\ untouched)
                 /\ disp.mediatype = "/"
                    => (ret'.err # NoErr /\ untouched)
                 /\ (disp.mediatype = "attachment" /\ disp.filename = <<>>)
                    => (ret'.err = ErrFilenameMissing /\ untouched)]_vars

C9_Witness ==
    /\ ret.op = "DownloadFile" /\ ret.recv = "view"
    /\ server.disp.mediatype = "attachment" /\ server.disp.filename = <<>>
    /\ ret.err = ErrFilenameMissing
    /\ ret.path = <<>>
    /\ views[ret.id].reads = 0


----------------------------------------------------------------------------
(* The specification's statements about forms and bodies *)

\* the file at path can be opened and read to its end
Readable(path) == path \notin Dirs /\ fs[path] # Absent

\* what opening and copying a file that is not readable reports
FileError(path) ==
    IF path \in Dirs
    THEN "read " \o PathString(path) \o ": is a directory"
    ELSE "open " \o PathString(path) \o ": no such file or directory"

FirstUnreadable(fileOrder) ==
    CHOOSE k \in DOMAIN fileOrder :
        /\ ~Readable(fileOrder[k][2])
        /\ \A j \in 1..(k - 1) : Readable(fileOrder[j][2])

\* the orders in which a SetForm call may visit its file and field entries
FormOrders ==
    { <<bd, fo, fdo>> :
        bd \in Boundaries,
        fo \in UNION { Orders(input[1]) : input \in FormInputs },
        fdo \in UNION { Orders(input[2]) : input \in FormInputs } }

\* C11: a SetForm on an error-free builder with a file entry that cannot be
\* opened or read records the error of the first such entry and changes
\* nothing else of the builder (no body, content length, GetBody or
\* Content-Type from the partial buffer); a Post on a builder with a
\* recorded error returns that error and no view, and sends nothing.
C11_FailedFormInstallsNothing ==
    [][\A b \in DOMAIN req :
         /\ (req[b].err = NoErr /\ req'[b].err # NoErr)
               => \A c \in FormOrders :
                    SetFormWith(b, c[1], c[2], c[3])
                      => req'[b] =
                           [req[b] EXCEPT
                              !.err = FileError(c[2][FirstUnreadable(c[2])][2])]
         /\ (req[b].err # NoErr /\ ret'.op = "verb" /\ Post(b))
               => /\ ret'.err = req[b].err
                  /\ ret'.view = 0
                  /\ ~ret'.dispatched
                  /\ views' = views]_vars

C11_Witness ==
    /\ ret.op = "verb" /\ ~ret.dispatched /\ ret.view = 0
    /\ ret.err = FileError(<<"wrong", "path">>)
    /\ req[ret.id].err = ret.err
    /\ req[ret.id].body = Absent
    /\ req[ret.id].contentLength = 0


\* the parts a multipart reader finds for the files, then for the fields
RECURSIVE ExpectedFileParts(_, _)
ExpectedFileParts(bd, fileOrder) ==
    IF fileOrder = <<>> THEN <<>>
    ELSE << "--" \o bd \o " name=" \o fileOrder[1][1]
                 \o " filename=" \o PathString(fileOrder[1][2]) >>
         \o fs[fileOrder[1][2]][1]
         \o ExpectedFileParts(bd, Tail(fileOrder))

RECURSIVE ExpectedFieldParts(_, _)
ExpectedFieldParts(bd, fieldOrder) ==
    IF fieldOrder = <<>> THEN <<>>
    ELSE << "--" \o bd \o " name=" \o fieldOrder[1][1], fieldOrder[1][2] >>
         \o ExpectedFieldParts(bd, Tail(fieldOrder))

ExpectedForm(bd, fileOrder, fieldOrder) ==
    ExpectedFileParts(bd, fileOrder) \o ExpectedFieldParts(bd, fieldOrder)
        \o << "--" \o bd \o "--" >>

\* C12: a SetForm on an error-free builder whose files are all readable
\* records no error, sets Content-Type to the one value "multipart/form-data;
\* boundary=<boundary>", and installs as body and as GetBody the same buffer,
\* with its length as content length: each file's part and bytes in the order
\* visited, then each field's part and value, each once, then the closing
\* delimiter once; nothing else of the builder changes.
C12_FormInstallsAllParts ==
    [][\A b \in DOMAIN req :
         (req[b].err = NoErr /\ req'[b].err = NoErr /\ ret'.op = "config")
            => \A c \in FormOrders :
                 (/\ SetFormWith(b, c[1], c[2], c[3])
                  /\ \A k \in DOMAIN c[2] : Readable(c[2][k][2]))
                   => LET buf == ExpectedForm(c[1], c[2], c[3])
                      IN  req'[b] =
                            [req[b] EXCEPT
                               !.body = Some(buf),
                               !.getBody = Some(buf),
                               !.contentLength = Len(buf),
                               !.header["Content-Type"] =
                                   << "multipart/form-data; boundary=" \o c[1] >>]
       ]_vars

C12_Witness ==
    /\ ret.op = "config"
    /\ req[ret.id].err = NoErr
    /\ req[ret.id].body = Some(<< "--b1 name=a filename=in", "f", "g",
                                  "--b1 name=b filename=out", "o", "l", "d",
                                  "--b1 name=taskId", "123456", "--b1--" >>)
    /\ req[ret.id].getBody = req[ret.id].body
    /\ req[ret.id].contentLength = 10
    /\ req[ret.id].header["Content-Type"] = << "multipart/form-data; boundary=b1" >>


\* C13: every call of GetBody returns a stream whose whole content is the
\* data the builder's body was set from, however many streams were obtained
\* before and however far they were read, and the content length is the
\* length of that data.
C13_GetBodyReplaysWholeBody ==
    [][\A b \in DOMAIN req :
         (ret'.op = "GetBody" /\ ret'.id = b)
            => /\ req[b].body # Absent
               /\ ret'.data = req[b].body[1]
               /\ req[b].contentLength = Len(ret'.data)]_vars

C13_Witness ==
    /\ ret.op = "GetBody"
    /\ ret.data = <<"j", "s">>
    /\ Len(req[ret.id].replays) = 2
    /\ req[ret.id].replays[1].pos = 1
    /\ req[ret.id].contentLength = 2


----------------------------------------------------------------------------
(* The specification's statements about dispatch *)

\* the step is a verb call on error-free builder b that reached client.Do
Dispatches(b) ==
    /\ req[b].err = NoErr
    /\ ret'.op = "verb" /\ ret'.id = b /\ ret'.dispatched

\* C14: on an error-free builder, the request that Get, Post, Put and Delete
\* hand to client.Do has the method GET, POST, PUT and DELETE, whatever the
\* method was before; PostJSON hands over a POST request whose Content-Type
\* is the one value application/json, and is otherwise as Post.
C14_VerbSetsMethod ==
    [][\A b \in DOMAIN req :
         Dispatches(b)
            => /\ Get(b) => req'[b].method = "GET"
               /\ Post(b) => req'[b].method = "POST"
               /\ Put(b) => req'[b].method = "PUT"
               /\ Delete(b) => req'[b].method = "DELETE"
               /\ PostJSON(b)
                    => /\ req'[b].method = "POST"
                       /\ req'[b].header =
                            [req[b].header EXCEPT
                                !["Content-Type"] = << "application/json" >>]
                       /\ [req'[b] EXCEPT !.header = req[b].header,
                                          !.method = req[b].method,
                                          !.url = req[b].url] = req[b]]_vars

C14_Witness ==
    /\ ret.op = "verb" /\ ret.dispatched /\ ret.err = NoErr
    /\ req[ret.id].method = "POST"
    /\ req[ret.id].header["Content-Type"] = << "application/json" >>
    /\ req[ret.id].header["X-Token"] = << "tok" >>


\* C15: a verb call that returns an error returns no view and creates none;
\* one that returns no error returns a view that did not exist before, whose
\* data is unset and whose stream is unread and open, and creates no other
\* view; the views that existed are left as they were.
C15_ViewXorError ==
    [][(ret'.op = "verb" /\ ~panicked')
          => /\ ret'.err # NoErr => (ret'.view = 0 /\ views' = views)
             /\ ret'.err = NoErr
                  => /\ ret'.view = Len(views) + 1
                     /\ views' = Append(views, views'[ret'.view])
                     /\ views'[ret'.view].data = <<>>
                     /\ views'[ret'.view].reads = 0
                     /\ views'[ret'.view].closes = 0
                     /\ ret'.dispatched]_vars

C15_Witness ==
    /\ ret.op = "verb" /\ ret.err = NoErr /\ ret.view = Len(views)
    /\ ret.view > 0
    /\ views[ret.view].data = <<>>
    /\ req[ret.id].contentLength = 2


----------------------------------------------------------------------------
(* The specification's statements about absent views and client settings *)

\* C16: on a nil *Response and on a Response without http.Response,
\* StatusCode returns 0, Headers returns no header, Close returns no error,
\* and Body returns an error (it returns, it does not panic).
C16_AbsentViewAnswers ==
    ret.recv \in AbsentReceivers
        => /\ ret.op = "StatusCode" => ret.status = 0
           /\ ret.op = "Headers" => ret.ctype = NoValue
           /\ ret.op = "Close" => ret.err = NoErr
           /\ ret.op = "Body" => (ret.err # NoErr /\ ~panicked)


\* the TLS configuration and the proxy of the transport that client.Do of
\* builder struct r would use, given the transports h
TLSInEffect(r, h) ==
    IF r.transport = Nil THEN Nil
    ELSE IF r.transport = "own" THEN r.own.tls
    ELSE h[r.transport].tls

ProxyInEffect(r, h) ==
    IF r.transport = Nil THEN Absent
    ELSE IF r.transport = "own" THEN r.own.proxy
    ELSE h[r.transport].proxy

\* C17: setting the timeout, the TLS configuration or the proxy leaves the
\* other settings of the builder's client as they were: after SetTimeout the
\* TLS configuration and the proxy in effect are unchanged, after
\* SetTLSConfig the timeout and the proxy, and after a SetProxy that
\* recorded no error the timeout and the TLS configuration.
C17_ClientSettingsIndependent ==
    [][\A b \in DOMAIN req :
         (req[b].err = NoErr /\ req'[b].err = NoErr /\ ~panicked')
            => /\ SetTimeout(b)
                    => /\ TLSInEffect(req'[b], heap') = TLSInEffect(req[b], heap)
                       /\ ProxyInEffect(req'[b], heap') = ProxyInEffect(req[b], heap)
               /\ SetTLSConfig(b)
                    => /\ req'[b].timeout = req[b].timeout
                       /\ ProxyInEffect(req'[b], heap') = ProxyInEffect(req[b], heap)
               /\ SetProxy(b)
                    => /\ req'[b].timeout = req[b].timeout
                       /\ TLSInEffect(req'[b], heap') = TLSInEffect(req[b], heap)]_vars


\* an address in lower case, and whether it ends in an unfinished escape
LowerCased(address) ==
    [i \in DOMAIN address |-> IF address[i] = "H" THEN "h" ELSE address[i]]

Malformed(address) ==
    \E i \in DOMAIN address : address[i] = "%" /\ i + 2 > Len(address)

\* the errors SetForm and SetProxy record for their own arguments
ArgumentErrors ==
    { FileError(p) : p \in Paths \cup Dirs }
        \cup { "parse " \o Concat(u, "") \o ": invalid URL escape" :
                  u \in { v \in ProxyURLs : Malformed(v) } }

\* C18: New leaves the builder error-free whatever the address, and a
\* configuration call records an error only for its own argument, never for
\* the address; a verb on an error-free builder lower-cases the whole
\* address and parses it: when that fails it returns the parse error and no
\* view and does not call client.Do, otherwise the request carries the
\* lower-cased address as its URL.
C18_AddressCheckedAtDispatch ==
    /\ \A b \in DOMAIN req : req[b].err = NoErr
    /\ [][\A b \in DOMAIN req :
            /\ (req[b].err = NoErr /\ req'[b].err # NoErr)
                  => req'[b].err \in ArgumentErrors
            /\ (req[b].err = NoErr /\ ret'.op = "verb" /\ ret'.id = b)
                  => IF Malformed(req[b].address)
                     THEN /\ ret'.err = "parse " \o Concat(LowerCased(req[b].address), "")
                                            \o ": invalid URL escape"
                          /\ ret'.view = 0
                          /\ ~ret'.dispatched
                          /\ views' = views
                     ELSE /\ ret'.dispatched
                          /\ req'[b].url = Some(LowerCased(req[b].address))]_vars

C18_Witness ==
    /\ ret.op = "verb" /\ ~ret.dispatched /\ ret.view = 0
    /\ req[ret.id].address = <<"%">>
    /\ req[ret.id].err = NoErr
    /\ ret.err = "parse %: invalid URL escape"
    /\ req[ret.id].header["X-Token"] = << "tok" >>


----------------------------------------------------------------------------
(* The specification's statements about headers and file handles *)

\* the header name a key of a SetHeaders map stands for
NameOf(key) ==
    IF key \in {"content-type", "Content-Type"} THEN "Content-Type" ELSE key

\* C19: after a configuration call every header name holds at most one
\* value; SetContentType and SetBodyXML leave Content-Type with exactly the
\* value they give, and SetHeaders leaves each name of its map with exactly
\* one value the map gives for that name; every other name keeps its value.
C19_HeadersLastWriteWins ==
    [][\A b \in DOMAIN req :
         (ret'.op = "config" /\ ret'.id = b)
            => LET old == req[b].header
                   new == req'[b].header
               IN  /\ \A n \in HeaderNames : Len(new[n]) <= 1
                   /\ SetBodyXML(b)
                        => new = [old EXCEPT !["Content-Type"] =
                                     << "application/xml; charset=UTF-8" >>]
                   /\ SetContentType(b)
                        => \E ct \in ContentTypes :
                             new = [old EXCEPT !["Content-Type"] = << ct >>]
                   /\ SetHeaders(b)
                        => \E m \in HeaderMaps : \A n \in HeaderNames :
                             IF \E e \in m : NameOf(e[1]) = n
                             THEN \E e \in m : NameOf(e[1]) = n /\ new[n] = << e[2] >>
                             ELSE new[n] = old[n]]_vars

C19_Witness ==
    /\ ret.op = "config"
    /\ req[ret.id].header["Content-Type"] = << "application/xml; charset=UTF-8" >>
    /\ req[ret.id].header["X-Token"] = << "tok" >>
    /\ req[ret.id].body # Absent
    /\ req[ret.id].contentLength > 2


\* C20: no file that SetForm opened is open once SetForm has returned,
\* whether it succeeded, could not open a file, or could not copy one.
C20_NoFileLeftOpen == handles = 0

C20_Witness ==
    /\ ret.op = "config"
    /\ req[ret.id].err = FileError(<<"dl">>)
    /\ handles = 0


----------------------------------------------------------------------------
(* The specification's statements about builders, the cache and GetBody *)

\* C21: a configuration call on one builder changes nothing of what another
\* builder dispatches with: the other's request (headers, body), timeout and
\* transport, and the TLS configuration and proxy in effect for it.
C21_BuildersIsolated ==
    [][\A b \in DOMAIN req : \A other \in DOMAIN req \ {b} :
         (ret'.op = "config" /\ ret'.id = b)
            => /\ req'[other] = req[other]
               /\ TLSInEffect(req'[other], heap') = TLSInEffect(req[other], heap)
               /\ ProxyInEffect(req'[other], heap')
                    = ProxyInEffect(req[other], heap)]_vars


\* C22: a Body or SaveFile that returns an error of the response or of its
\* stream (no response, no stream, a failed read, a failed close) leaves the
\* view's data unset.
C22_FailedReadLeavesCacheEmpty ==
    [][((ViewCall("Body") \/ ViewCall("SaveFile"))
          /\ ret'.err \in {ErrRespNil, ErrBodyNil, ErrStreamRead, ErrStreamClose})
          => views'[ret'.id].data = <<>>]_vars


\* C23: on a builder from New that only the public calls have touched, a
\* content length above zero comes with a GetBody whose stream holds exactly
\* that many bytes, and no verb returns the "request.GetBody cannot be nil"
\* error.
C23_ContentLengthHasGetBody ==
    /\ \A b \in DOMAIN req :
         req[b].contentLength > 0
            => /\ req[b].getBody # Absent
               /\ Len(Remaining(openReplay(req[b]))) = req[b].contentLength
    /\ ret.err # ErrGetBody

C23_Witness ==
    /\ ret.op = "verb" /\ ret.dispatched /\ ret.err = ErrTransport
    /\ req[ret.id].contentLength > 0
    /\ req[ret.id].getBody # Absent
    /\ Len(req[ret.id].getBody[1]) = req[ret.id].contentLength

=============================================================================
